---- MODULE Spec2Model ----
(***************************************************************************)
(* Model of tools/outreach_generator.py: one run of main() as a state      *)
(* machine, and its pure helpers (generate_referral_hash, the response     *)
(* interpreter of generate_outreach_messages) as operators.                *)
(*                                                                         *)
(* Text is a sequence of one-character strings.  Python's None is the      *)
(* tagged value None; a present string s is Some(s).                       *)
(***************************************************************************)
EXTENDS Integers, Sequences, FiniteSets, TLC

VARIABLES
  pc,         \* position of the run inside main()
  argv,       \* command line: [name, persona, platform, config, output, quiet]
  environ,    \* ANTHROPIC_API_KEY: None, Some(<<>>) or Some(key)
  configFile, \* what open(args.config) / json.load find
  target,     \* target_name, persona_code, platform, bio, recent_content
  ident,      \* referral_hash and persona_url (lines 88-89)
  requests,   \* client.messages.create calls made so far
  response,   \* outcome of the call: none | error | text
  parsed,     \* outcome of the response interpreter
  result,     \* the dict returned by generate_outreach_messages
  fs0,        \* the file system when the run starts
  fs,         \* the file system: [dirs, files]
  stdout,     \* lines printed to standard output
  stderr,     \* lines printed to the error stream
  exc,        \* the exception in flight, if any
  steps,      \* the steps of the run completed so far, in order
  exitStatus, \* process exit status, -1 while running
  name,       \* SpecHash: argument of generate_referral_hash
  hash,       \* SpecHash: its return value
  reply,      \* SpecParse: message.content[0].text
  direct,     \* SpecParse: interpreter outcome on the JSON text itself
  fenced      \* SpecParse: interpreter outcome on the fenced reply

vars == <<pc, argv, environ, configFile, target, ident, requests, response,
          parsed, result, fs0, fs, stdout, stderr, exc, steps, exitStatus,
          name, hash, reply, direct, fenced>>

runVars == <<pc, argv, environ, configFile, target, ident, requests, response,
             parsed, result, fs0, fs, stdout, stderr, exc, steps, exitStatus>>

----------------------------------------------------------------------------
(* Bounds of the model *)

\* longest name given to generate_referral_hash in SpecHash
MaxNameLen == 3
\* most members of a JSON object the model service replies with
MaxPairs == 2

----------------------------------------------------------------------------
(* Python values *)

None == [t |-> "none", v |-> <<>>]
Some(s) == [t |-> "str", v |-> s]

\* bool(x) of an Optional[str]
Truthy(x) == x.t = "str" /\ x.v # <<>>

Min(a, b) == IF a < b THEN a ELSE b
Max(a, b) == IF a > b THEN a ELSE b

----------------------------------------------------------------------------
(* Python str operations, on sequences of characters, 0-based as in Python *)

\* s[a:b] with 0 <= a
Slice(s, a, b) ==
  LET hi == IF b < 0 THEN Max(Len(s) + b, 0) ELSE Min(b, Len(s))
  IN  IF a >= hi THEN <<>> ELSE SubSeq(s, a + 1, hi)

StartsAt(s, sub, i) ==
  /\ i + Len(sub) <= Len(s)
  /\ \A k \in 1..Len(sub) : s[i + k] = sub[k]

\* s.find(sub, start): the lowest index, -1 when sub does not occur
Find(s, sub, start) ==
  LET hits == {i \in start..(Len(s) - Len(sub)) : StartsAt(s, sub, i)}
  IN  IF hits = {} THEN -1 ELSE CHOOSE i \in hits : \A j \in hits : i <= j

\* sub in s
Contains(s, sub) == Find(s, sub, 0) # -1

\* s.replace(old, new) for a one-character old
RECURSIVE Replace(_, _, _)
Replace(s, old, new) ==
  IF s = <<>> THEN <<>>
  ELSE (IF Head(s) = old THEN new ELSE <<Head(s)>>) \o Replace(Tail(s), old, new)

Whitespace == {" ", "\n"}

RECURSIVE LStrip(_)
LStrip(s) == IF s # <<>> /\ Head(s) \in Whitespace THEN LStrip(Tail(s)) ELSE s

RECURSIVE RStrip(_)
RStrip(s) ==
  IF s # <<>> /\ s[Len(s)] \in Whitespace THEN RStrip(SubSeq(s, 1, Len(s) - 1)) ELSE s

\* s.strip()
Strip(s) == RStrip(LStrip(s))

\* c.lower() for one character
LowerChar(c) ==
  CASE c = "A" -> "a"
    [] c = "B" -> "b"
    [] OTHER   -> c

\* s.lower()
Lower(s) == [i \in 1..Len(s) |-> LowerChar(s[i])]

----------------------------------------------------------------------------
(* PERSONAS, lines 30-37: the persona codes (the keys of the table) *)

PERSONAS == {<<"m">>, <<"d">>, <<"e">>, <<"v">>, <<"p">>, <<"i">>}

----------------------------------------------------------------------------
(* hashlib.md5(clean_name.encode()).hexdigest()[:2]                        *)
(*                                                                         *)
(* Md5FirstByte[n + 1][k + 1] is the first byte of the MD5 digest of the   *)
(* k-th string of length n over the characters a, b, - (in that order,     *)
(* the leftmost character most significant), as hashlib computes it.       *)

Md5FirstByte ==
  <<
    <<
       212
    >>,
    <<
       12, 146, 51
    >>,
    <<
       65, 24, 213, 7, 33, 192, 55, 21, 207
    >>,
    <<
       71, 230, 126, 121, 234, 44, 43, 140, 219, 140, 217, 147, 252, 8, 65,
       49, 9, 12, 157, 226, 154, 201, 133, 238, 34, 18, 158
    >>,
    <<
       116, 76, 120, 172, 94, 23, 36, 127, 59, 83, 88, 106, 84, 240, 196,
       64, 144, 69, 30, 201, 70, 36, 129, 160, 198, 54, 119, 27, 156, 38,
       33, 250, 23, 225, 24, 30, 189, 194, 6, 121, 101, 205, 198, 209, 6,
       231, 56, 7, 108, 113, 153, 32, 159, 215, 193, 154, 180, 165, 82, 124,
       117, 31, 188, 122, 104, 94, 87, 27, 17, 133, 152, 168, 74, 135, 203,
       34, 60, 218, 253, 107, 186
    >>,
    <<
       89, 17, 140, 1, 237, 200, 147, 123, 41, 134, 199, 122, 164, 39, 79,
       254, 22, 70, 245, 84, 77, 20, 102, 51, 58, 110, 241, 35, 157, 182,
       136, 27, 34, 88, 77, 75, 145, 137, 229, 24, 203, 106, 241, 184, 140,
       78, 207, 95, 80, 41, 4, 200, 42, 89, 137, 111, 120, 217, 54, 36, 178,
       168, 113, 74, 42, 214, 106, 37, 195, 79, 151, 178, 100, 103, 203,
       235, 181, 159, 253, 120, 228, 247, 150, 80, 16, 219, 245, 205, 219,
       86, 248, 186, 122, 76, 154, 21, 103, 100, 103, 50, 148, 251, 182,
       229, 230, 254, 237, 53, 165, 90, 23, 135, 12, 164, 250, 32, 56, 219,
       100, 121, 114, 162, 121, 18, 158, 133, 9, 214, 89, 159, 160, 198, 17,
       102, 96, 2, 125, 247, 161, 97, 195, 134, 208, 194, 155, 89, 73, 0,
       83, 81, 193, 108, 185, 58, 218, 39, 137, 123, 112, 188, 252, 4, 71,
       9, 32, 201, 27, 87, 174, 141, 85, 227, 41, 245, 63, 94, 251, 104,
       222, 170, 62, 59, 44, 93, 156, 98, 226, 152, 91, 135, 207, 30, 129,
       79, 75, 121, 60, 139, 126, 221, 124, 17, 128, 122, 159, 181, 129, 24,
       77, 108, 147, 107, 3, 126, 100, 112, 58, 204, 251, 206, 89, 8, 48,
       97, 228, 63, 77, 207, 180, 105, 249, 188, 162, 153, 115, 117, 25,
       123, 209, 92, 90, 13, 104
    >>
  >>

CleanDigit(c) == CASE c = "a" -> 0 [] c = "b" -> 1 [] c = "-" -> 2

RECURSIVE Rank(_)
Rank(s) == IF s = <<>> THEN 0 ELSE 3 * Rank(SubSeq(s, 1, Len(s) - 1)) + CleanDigit(s[Len(s)])

HexDigits == <<"0", "1", "2", "3", "4", "5", "6", "7", "8", "9", "a", "b", "c", "d", "e", "f">>

\* hexdigest() of one byte: two lowercase hexadecimal digits
HexByte(b) == <<HexDigits[(b \div 16) + 1], HexDigits[(b % 16) + 1]>>

Md5Hex2(s) == HexByte(Md5FirstByte[Len(s) + 1][Rank(s) + 1])

\* clean_name of generate_referral_hash, line 43
CleanName(n) == Replace(Replace(Lower(n), " ", <<"-">>), "'", <<>>)

\* generate_referral_hash, lines 40-46
generate_referral_hash(n) ==
  LET clean_name  == CleanName(n)
      hash_suffix == Md5Hex2(clean_name)
      prefix      == Slice(clean_name, 0, 2)
  IN  prefix \o hash_suffix

BaseUrl == <<"j", "a", "m", ".", "a", "u", "d", "i", "o", "l", "u", "x", ".", "a", "p", "p">>

\* build_persona_url, lines 49-51
build_persona_url(persona_code, referral_hash) ==
  BaseUrl \o <<"?", "v", "=">> \o persona_code \o <<"&", "r", "=">> \o referral_hash

----------------------------------------------------------------------------
(* json.loads, on the characters the model's replies are made of: objects, *)
(* arrays and strings (no digits, no backslash, no true/false/null occur   *)
(* in a reply of the model).  A parsed value is [t, v]: t = "obj" with v   *)
(* the mapping from keys to values, "arr" with v the sequence of elements, *)
(* "str" with v the characters.                                            *)

JsonFail == [ok |-> FALSE, val |-> None, next |-> 0]
JsonOk(val, next) == [ok |-> TRUE, val |-> val, next |-> next]

\* dict(pairs): a later pair of the same key replaces an earlier one
DictOf(pairs) ==
  LET keys == {pairs[i][1] : i \in 1..Len(pairs)}
      last(k) == CHOOSE i \in 1..Len(pairs) :
                   /\ pairs[i][1] = k
                   /\ \A j \in 1..Len(pairs) : pairs[j][1] = k => j <= i
  IN  [t |-> "obj", v |-> [k \in keys |-> pairs[last(k)][2]]]

RECURSIVE SkipWs(_, _)
SkipWs(s, i) == IF i <= Len(s) /\ s[i] \in Whitespace THEN SkipWs(s, i + 1) ELSE i

\* s[i] is the opening quote; a string ends at the next quote and holds no newline
ParseString(s, i) ==
  LET ends == {j \in (i + 1)..Len(s) : s[j] = "\""}
      j == CHOOSE e \in ends : \A f \in ends : e <= f
  IN  IF ends = {} \/ \E k \in (i + 1)..(j - 1) : s[k] = "\n"
      THEN JsonFail
      ELSE JsonOk(Some(SubSeq(s, i + 1, j - 1)), j + 1)

RECURSIVE ParseValue(_, _)
RECURSIVE ParseMembers(_, _, _)
RECURSIVE ParseElements(_, _, _)

\* i is where a key must start
ParseMembers(s, i, acc) ==
  IF i > Len(s) \/ s[i] # "\"" THEN JsonFail
  ELSE
    LET key   == ParseString(s, i)
        colon == SkipWs(s, key.next)
    IN  IF ~key.ok \/ colon > Len(s) \/ s[colon] # ":" THEN JsonFail
        ELSE
          LET val  == ParseValue(s, SkipWs(s, colon + 1))
              e    == SkipWs(s, val.next)
              acc2 == Append(acc, <<key.val.v, val.val>>)
          IN  IF ~val.ok \/ e > Len(s) THEN JsonFail
              ELSE IF s[e] = "}" THEN JsonOk(DictOf(acc2), e + 1)
              ELSE IF s[e] = "," THEN ParseMembers(s, SkipWs(s, e + 1), acc2)
              ELSE JsonFail

\* i is where an element must start
ParseElements(s, i, acc) ==
  LET val  == ParseValue(s, i)
      e    == SkipWs(s, val.next)
      acc2 == Append(acc, val.val)
  IN  IF ~val.ok \/ e > Len(s) THEN JsonFail
      ELSE IF s[e] = "]" THEN JsonOk([t |-> "arr", v |-> acc2], e + 1)
      ELSE IF s[e] = "," THEN ParseElements(s, SkipWs(s, e + 1), acc2)
      ELSE JsonFail

ParseValue(s, i) ==
  IF i > Len(s) THEN JsonFail
  ELSE IF s[i] = "\"" THEN ParseString(s, i)
  ELSE IF s[i] = "{" THEN
    LET j == SkipWs(s, i + 1)
    IN  IF j <= Len(s) /\ s[j] = "}" THEN JsonOk(DictOf(<<>>), j + 1)
        ELSE ParseMembers(s, j, <<>>)
  ELSE IF s[i] = "[" THEN
    LET j == SkipWs(s, i + 1)
    IN  IF j <= Len(s) /\ s[j] = "]" THEN JsonOk([t |-> "arr", v |-> <<>>], j + 1)
        ELSE ParseElements(s, j, <<>>)
  ELSE JsonFail

\* json.loads(s): one value, whitespace around it, nothing else
json_loads(s) ==
  LET r == ParseValue(s, SkipWs(s, 1))
  IN  IF r.ok /\ SkipWs(s, r.next) = Len(s) + 1
      THEN [ok |-> TRUE, val |-> r.val]
      ELSE [ok |-> FALSE, val |-> None]

----------------------------------------------------------------------------
(* The response interpreter, lines 137-150 *)

\* the grave accent character (U+0060), which a TLA+ string cannot hold
Backtick == "<backtick>"

Backticks == <<Backtick, Backtick, Backtick>>
FenceOpen == Backticks \o <<"j", "s", "o", "n">>

NoExc == [type |-> "none", msg |-> <<>>]

\* the ValueError of line 150: a fixed first line, then response_text
ParseError(response_text) ==
  [type |-> "ValueError",
   msg  |-> <<"Failed to parse Claude response as JSON:", "\n">> \o response_text]

\* what json.loads raises at line 148: a reason and a position, not the text
DecodeError ==
  [type |-> "JSONDecodeError", msg |-> <<"Expecting value: line 1 column 1 (char 0)">>]

\* lines 138-150: [ok, messages, exc]
Interpret(text) ==
  LET response_text == Strip(text)
      first         == json_loads(response_text)
  IN  IF first.ok THEN [ok |-> TRUE, messages |-> first.val, exc |-> NoExc]
      ELSE IF Contains(response_text, FenceOpen) THEN
        LET json_start == Find(response_text, FenceOpen, 0) + 7
            json_end   == Find(response_text, Backticks, json_start)
            inner      == Strip(Slice(response_text, json_start, json_end))
            second     == json_loads(inner)
        IN  IF second.ok THEN [ok |-> TRUE, messages |-> second.val, exc |-> NoExc]
            ELSE [ok |-> FALSE, messages |-> None, exc |-> DecodeError]
      ELSE [ok |-> FALSE, messages |-> None, exc |-> ParseError(response_text)]

----------------------------------------------------------------------------
(* Texts the model uses *)

friendly     == <<"f", "r", "i", "e", "n", "d", "l", "y">>
professional == <<"p", "r", "o", "f", "e", "s", "s", "i", "o", "n", "a", "l">>
brief        == <<"b", "r", "i", "e", "f">>

\* the keys of the dict of lines 152-159
K_target        == <<"t", "a", "r", "g", "e", "t">>
K_persona       == <<"p", "e", "r", "s", "o", "n", "a">>
K_platform      == <<"p", "l", "a", "t", "f", "o", "r", "m">>
K_referral_hash == <<"r", "e", "f", "e", "r", "r", "a", "l", "_", "h", "a", "s", "h">>
K_url           == <<"u", "r", "l">>
K_messages      == <<"m", "e", "s", "s", "a", "g", "e", "s">>

Quote(s) == <<"\"">> \o s \o <<"\"">>

\* "key":"value"
Member(p) == Quote(p[1]) \o <<":">> \o Quote(p[2])

RECURSIVE Members(_)
Members(pairs) ==
  IF pairs = <<>> THEN <<>>
  ELSE IF Len(pairs) = 1 THEN Member(pairs[1])
  ELSE Member(pairs[1]) \o <<",">> \o Members(Tail(pairs))

\* the JSON text of an object whose members are the pairs, in order
ObjectText(pairs) == <<"{">> \o Members(pairs) \o <<"}">>

\* the mapping that text stands for
ObjectValue(pairs) == DictOf([i \in 1..Len(pairs) |-> <<pairs[i][1], Some(pairs[i][2])>>])

\* a reply that wraps text in a fenced block
Fence(text) == FenceOpen \o <<"\n">> \o text \o <<"\n">> \o Backticks

FullPairs == <<<<friendly, <<"a">>>>, <<professional, <<"b">>>>, <<brief, <<"c">>>>>>

\* replies of the model service in a run
Replies ==
  { ObjectText(FullPairs),
    <<" ">> \o ObjectText(FullPairs) \o <<"\n">>,
    Fence(ObjectText(FullPairs)),
    <<"H", "i", ":", "\n">> \o Fence(ObjectText(FullPairs)) \o <<"\n", "o", "k">>,
    Fence(ObjectText(<<<<brief, <<"a", Backtick, Backtick, Backtick>>>>>>)),
    FenceOpen \o ObjectText(FullPairs),
    FenceOpen \o ObjectText(FullPairs) \o <<"x">>,
    ObjectText(<<>>),
    ObjectText(<<<<friendly, <<"a">>>>>>),
    <<"[", "]">>,
    Quote(<<"a">>),
    <<"s", "o", "r", "r", "y">>,
    Fence(<<"s", "o", "r", "r", "y">>),
    Backticks \o <<"\n">> \o ObjectText(FullPairs) \o <<"\n">> \o Backticks }

\* outcomes of client.messages.create and of message.content[0].text
Responses ==
  {[kind |-> "error", text |-> <<>>], [kind |-> "empty", text |-> <<>>]}
    \cup {[kind |-> "text", text |-> r] : r \in Replies}

NoResponse == [kind |-> "none", text |-> <<>>]

Email == <<"E", "m", "a", "i", "l">>

NameArgs     == {None, Some(<<>>), Some(<<"A", "b", " ", "B">>)}
PersonaArgs  == {None, Some(<<>>), Some(<<"d">>), Some(<<"x">>)}
PlatformArgs == {None, Some(<<>>), Some(Email)}
ConfigArgs   == {None, Some(<<>>), Some(<<"t", ".", "j", "s", "o", "n">>)}
OutputArgs   == {None, Some(<<"o", "u", "t", "/", "r", ".", "j", "s", "o", "n">>),
                 Some(<<"r", ".", "j", "s", "o", "n">>)}
BioArgs      == {None, Some(<<"b", "i", "o">>)}

\* sys.argv as argparse reads it, lines 202-213
Argvs ==
  [name : NameArgs, persona : PersonaArgs, platform : PlatformArgs,
   bio : BioArgs, content : {None}, config : ConfigArgs, output : OutputArgs,
   quiet : BOOLEAN]

\* os.environ.get("ANTHROPIC_API_KEY")
Environs == {None, Some(<<>>), Some(<<"k", "e", "y">>)}

NoEnviron == [t |-> "unread", v |-> <<>>]

\* the file args.config names: absent, not JSON, or an object of strings
ConfigFiles ==
  {[kind |-> "missing", obj |-> <<>>], [kind |-> "invalid", obj |-> <<>>]}
    \cup {[kind |-> "object",
           obj  |-> [name |-> n, persona |-> p, platform |-> f, bio |-> None,
                     recent_content |-> c]] :
            n \in {None, Some(<<>>), Some(<<"A", "'", "b">>)},
            p \in {None, Some(<<"m">>), Some(<<"x">>), Some(<<>>)},
            f \in {None, Some(Email)},
            c \in {Some(<<"n", "e", "w">>)}}

NoConfig == [kind |-> "unread", obj |-> <<>>]

NoTarget == [target_name |-> None, persona_code |-> None, platform |-> None,
             bio |-> None, recent_content |-> None]

NoIdent == [referral_hash |-> None, persona_url |-> None]

NoParse == [ok |-> FALSE, messages |-> None, exc |-> NoExc]

\* the interpreter has run: it returned messages or raised
Interpreted(p) == p.ok \/ p.exc.type # "none"

\* exceptions, by type and the message str(e) gives
ValueError(msg) == [type |-> "ValueError", msg |-> msg]
ArgumentError(msg) == [type |-> "ArgumentError", msg |-> msg]
OtherError(type) == [type |-> type, msg |-> <<type>>]

CredentialMsg == <<"ANTHROPIC_API_KEY environment variable not set">>
PersonaMsg(code) == <<"Invalid persona code: ">> \o code \o <<". Must be one of: ['m', 'd', 'e', 'v', 'p', 'i']">>
RequiredMsg == <<"--name, --persona, and --platform are required (or use --config)">>
ChoiceMsg == <<"argument --persona: invalid choice">>

\* the marker of line 253
FailureMarker == "(cross mark) Error: "

MarkedLine_Plain(e) == e.msg

\* what line 253 prints
MarkedLine(e) == <<FailureMarker>> \o e.msg

\* what parser.error prints before it exits with status 2
UsageLine(e) == <<"usage: ", "error: ">> \o e.msg

\* what the interpreter prints for an exception nothing catches
TracebackLine(e) == <<"Traceback (most recent call last):">> \o e.msg

----------------------------------------------------------------------------
(* The file system *)

EmptyFs == [dirs |-> {}, files |-> {}]

ToolsOutreach == <<"t", "o", "o", "l", "s", "/", "o", "u", "t", "r", "e", "a", "c", "h">>
DotJson == <<".", "j", "s", "o", "n">>

\* os.path.dirname(path)
Dirname(path) ==
  LET slashes == {i \in 1..Len(path) : path[i] = "/"}
  IN  IF slashes = {} THEN <<>>
      ELSE SubSeq(path, 1, (CHOOSE i \in slashes : \A j \in slashes : j <= i) - 1)

\* the directories os.makedirs(d, exist_ok=True) leaves in place
MakeDirs(d) == {SubSeq(d, 1, i - 1) : i \in {j \in 2..Len(d) : d[j] = "/"}} \cup {d}

\* output_file of save_output, lines 164-167
OutputFile(res, output_file) ==
  IF Truthy(output_file) THEN output_file.v
  ELSE LET clean_name == Replace(Lower(res.v[K_target].v), " ", <<"-">>)
       IN  ToolsOutreach \o <<"/">> \o clean_name \o <<"-">> \o res.v[K_persona].v \o DotJson

\* open(path, "w") and json.dump: the file holds the JSON document of the dict
WriteFile(files, path, doc) ==
  {f \in files : f.path # path} \cup {[path |-> path, content |-> doc]}

\* file systems a run may start in
OldDoc == DictOf(<<<<K_target, Some(<<"o", "l", "d">>)>>>>)

InitialFs ==
  { EmptyFs,
    [dirs  |-> {<<"o", "u", "t">>},
     files |-> {[path |-> <<"o", "u", "t", "/", "r", ".", "j", "s", "o", "n">>,
                 content |-> OldDoc]}] }

----------------------------------------------------------------------------
(* One run of main() *)

Init ==
  /\ pc = "parse_args"
  /\ argv \in Argvs
  /\ fs0 \in InitialFs
  /\ fs = fs0
  /\ environ = NoEnviron
  /\ configFile = NoConfig
  /\ target = NoTarget
  /\ ident = NoIdent
  /\ requests = <<>>
  /\ response = NoResponse
  /\ parsed = NoParse
  /\ result = None
  /\ stdout = <<>>
  /\ stderr = <<>>
  /\ exc = NoExc
  /\ steps = <<>>
  /\ exitStatus = -1
  /\ name = <<>>
  /\ hash = None
  /\ reply = [pairs |-> <<>>, text |-> <<>>]
  /\ direct = NoParse
  /\ fenced = NoParse

pureVars == <<name, hash, reply, direct, fenced>>

\* parser.error(msg): usage and message on the error stream, exit status 2
ParserError(e) ==
  /\ exc' = e
  /\ stderr' = Append(stderr, UsageLine(e))
  /\ exitStatus' = 2
  /\ pc' = "exited"

\* an exception raised outside the try block of lines 235-254: traceback, status 1
Uncaught(e) ==
  /\ exc' = e
  /\ stderr' = Append(stderr, TracebackLine(e))
  /\ exitStatus' = 1
  /\ pc' = "exited"

\* an exception raised inside the try block: control goes to line 252
Raise(e) ==
  /\ exc' = e
  /\ pc' = "except"

\* the choices of --persona, line 203
PersonaChoiceOk(a) == a.persona = None \/ a.persona.v \in PERSONAS

\* parser.parse_args(), line 215
ParseArgs ==
  /\ pc = "parse_args"
  /\ IF PersonaChoiceOk(argv)
     THEN /\ pc' = "dispatch"
          /\ UNCHANGED <<exc, stderr, exitStatus>>
     ELSE ParserError(ArgumentError(ChoiceMsg))
  /\ UNCHANGED <<argv, environ, configFile, target, ident, requests, response,
                 parsed, result, fs0, fs, stdout, steps>>
  /\ UNCHANGED pureVars

\* the config branch, lines 218-225
LoadConfig ==
  /\ pc = "dispatch"
  /\ Truthy(argv.config)
  /\ \E cf \in ConfigFiles :
       /\ configFile' = cf
       /\ IF cf.kind = "missing" THEN
            Uncaught(OtherError("FileNotFoundError")) /\ UNCHANGED target
          ELSE IF cf.kind = "invalid" THEN
            Uncaught(OtherError("JSONDecodeError")) /\ UNCHANGED target
          ELSE IF None \in {cf.obj.name, cf.obj.persona, cf.obj.platform} THEN
            Uncaught(OtherError("KeyError")) /\ UNCHANGED target
          ELSE
            /\ target' = [target_name    |-> cf.obj.name,
                          persona_code   |-> cf.obj.persona,
                          platform       |-> cf.obj.platform,
                          bio            |-> cf.obj.bio,
                          recent_content |-> cf.obj.recent_content]
            /\ pc' = "check_key"
            /\ UNCHANGED <<exc, stderr, exitStatus>>
  /\ UNCHANGED <<argv, environ, ident, requests, response, parsed, result, fs0,
                 fs, stdout, steps>>
  /\ UNCHANGED pureVars

AllGiven_NoPlatform(a) == Truthy(a.name) /\ Truthy(a.persona)

\* all([args.name, args.persona, args.platform]), line 227
AllGiven(a) == Truthy(a.name) /\ Truthy(a.persona) /\ Truthy(a.platform)

\* the command-line branch, lines 226-233
UseArgs ==
  /\ pc = "dispatch"
  /\ ~Truthy(argv.config)
  /\ IF AllGiven(argv)
     THEN /\ target' = [target_name    |-> argv.name,
                        persona_code   |-> argv.persona,
                        platform       |-> argv.platform,
                        bio            |-> argv.bio,
                        recent_content |-> argv.content]
          /\ pc' = "check_key"
          /\ UNCHANGED <<exc, stderr, exitStatus>>
     ELSE ParserError(ArgumentError(RequiredMsg)) /\ UNCHANGED target
  /\ UNCHANGED <<argv, environ, configFile, ident, requests, response, parsed,
                 result, fs0, fs, stdout, steps>>
  /\ UNCHANGED pureVars

CheckApiKey_NoRaise ==
  /\ pc = "check_key"
  /\ \E e \in Environs :
       /\ environ' = e
       /\ pc' = "validate"
       /\ steps' = Append(steps, "credential")
  /\ UNCHANGED <<argv, configFile, target, ident, requests, response, parsed,
                 result, fs0, fs, stdout, stderr, exitStatus, exc>>
  /\ UNCHANGED pureVars

\* lines 77-81: api_key is not passed by main, so the environment decides
CheckApiKey ==
  /\ pc = "check_key"
  /\ \E e \in Environs :
       /\ environ' = e
       /\ IF Truthy(e)
          THEN /\ pc' = "validate"
               /\ steps' = Append(steps, "credential")
               /\ UNCHANGED exc
          ELSE Raise(ValueError(CredentialMsg)) /\ UNCHANGED steps
  /\ UNCHANGED <<argv, configFile, target, ident, requests, response, parsed,
                 result, fs0, fs, stdout, stderr, exitStatus>>
  /\ UNCHANGED pureVars

PersonaValid_Unchecked(code) == TRUE

\* persona_code in PERSONAS, line 84
PersonaValid(code) == code.v \in PERSONAS

\* lines 83-89: the persona check, then referral_hash and persona_url
ValidatePersona ==
  /\ pc = "validate"
  /\ IF PersonaValid(target.persona_code)
     THEN LET referral_hash == generate_referral_hash(target.target_name.v)
          IN  /\ ident' = [referral_hash |-> Some(referral_hash),
                           persona_url   |-> Some(build_persona_url(
                                                    target.persona_code.v,
                                                    referral_hash))]
              /\ pc' = "call"
              /\ steps' = Append(steps, "persona")
              /\ UNCHANGED exc
     ELSE Raise(ValueError(PersonaMsg(target.persona_code.v)))
          /\ UNCHANGED <<ident, steps>>
  /\ UNCHANGED <<argv, environ, configFile, target, requests, response, parsed,
                 result, fs0, fs, stdout, stderr, exitStatus>>
  /\ UNCHANGED pureVars

\* bio or "Not provided", lines 97-98
OrNotProvided(x) == IF Truthy(x) THEN x.v ELSE <<"Not provided">>

\* the fields the template of lines 92-126 is filled with
Prompt ==
  [name     |-> target.target_name.v,
   platform |-> target.platform.v,
   bio      |-> OrNotProvided(target.bio),
   content  |-> OrNotProvided(target.recent_content),
   persona  |-> target.persona_code.v,
   url      |-> ident.persona_url.v]

CallService_Retry ==
  /\ pc = "call"
  /\ \E r \in Responses :
       /\ response' = r
       /\ IF r.kind = "error"
          THEN /\ requests' = requests \o <<Prompt, Prompt>>
               /\ Raise(OtherError("APIError"))
               /\ UNCHANGED steps
          ELSE /\ requests' = Append(requests, Prompt)
               /\ pc' = "parse"
               /\ steps' = Append(steps, "request")
               /\ UNCHANGED exc
  /\ UNCHANGED <<argv, environ, configFile, target, ident, parsed, result, fs0,
                 fs, stdout, stderr, exitStatus>>
  /\ UNCHANGED pureVars

\* client.messages.create, lines 128-135
CallService ==
  /\ pc = "call"
  /\ requests' = Append(requests, Prompt)
  /\ \E r \in Responses :
       /\ response' = r
       /\ IF r.kind = "error"
          THEN Raise(OtherError("APIError")) /\ UNCHANGED steps
          ELSE /\ pc' = "parse"
               /\ steps' = Append(steps, "request")
               /\ UNCHANGED exc
  /\ UNCHANGED <<argv, environ, configFile, target, ident, parsed, result, fs0,
                 fs, stdout, stderr, exitStatus>>
  /\ UNCHANGED pureVars

\* the dict of lines 152-159
ResultOf(messages) ==
  DictOf(<< <<K_target, target.target_name>>,
            <<K_persona, target.persona_code>>,
            <<K_platform, target.platform>>,
            <<K_referral_hash, ident.referral_hash>>,
            <<K_url, ident.persona_url>>,
            <<K_messages, messages>> >>)

\* lines 137-159: read the reply text, interpret it, build the result
ParseResponse ==
  /\ pc = "parse"
  /\ IF response.kind = "empty"
     THEN /\ Raise(OtherError("IndexError"))
          /\ UNCHANGED <<parsed, result, steps>>
     ELSE LET p == Interpret(response.text)
          IN  /\ parsed' = p
              /\ IF p.ok
                 THEN /\ result' = ResultOf(p.messages)
                      /\ pc' = "save"
                      /\ steps' = Append(steps, "parse")
                      /\ UNCHANGED exc
                 ELSE Raise(p.exc) /\ UNCHANGED <<result, steps>>
  /\ UNCHANGED <<argv, environ, configFile, target, ident, requests, response,
                 fs0, fs, stdout, stderr, exitStatus>>
  /\ UNCHANGED pureVars

\* save_output(result, args.output), lines 162-175 and 246
SaveOutput ==
  /\ pc = "save"
  /\ LET output_file == OutputFile(result, argv.output)
         dir         == Dirname(output_file)
     IN  IF dir = <<>>
         THEN /\ Raise(OtherError("FileNotFoundError"))
              /\ UNCHANGED <<fs, steps>>
         ELSE /\ fs' = [dirs  |-> fs.dirs \cup MakeDirs(dir),
                        files |-> WriteFile(fs.files, output_file, result)]
              /\ steps' = Append(steps, "save")
              /\ pc' = IF argv.quiet THEN "return" ELSE "print"
              /\ UNCHANGED exc
  /\ UNCHANGED <<argv, environ, configFile, target, ident, requests, response,
                 parsed, result, fs0, stdout, stderr, exitStatus>>
  /\ UNCHANGED pureVars

\* print_result(result) and line 250; result["messages"].items() needs a dict
PrintResult ==
  /\ pc = "print"
  /\ LET messages == result.v[K_messages]
         header   == [line |-> "header", what |-> {result.v[K_target].v}]
     IN  IF messages.t = "obj"
         THEN /\ stdout' = stdout \o
                   << header,
                      [line |-> "messages", what |-> DOMAIN messages.v],
                      [line |-> "saved", what |-> {OutputFile(result, argv.output)}] >>
              /\ pc' = "return"
              /\ UNCHANGED exc
         ELSE /\ stdout' = Append(stdout, header)
              /\ Raise(OtherError("AttributeError"))
  /\ UNCHANGED <<argv, environ, configFile, target, ident, requests, response,
                 parsed, result, fs0, fs, stderr, steps, exitStatus>>
  /\ UNCHANGED pureVars

HandleException_NoExit ==
  /\ pc = "except"
  /\ stderr' = Append(stderr, MarkedLine(exc))
  /\ exitStatus' = 0
  /\ pc' = "exited"
  /\ UNCHANGED <<argv, environ, configFile, target, ident, requests, response,
                 parsed, result, fs0, fs, stdout, exc, steps>>
  /\ UNCHANGED pureVars

\* except Exception, lines 252-254
HandleException ==
  /\ pc = "except"
  /\ stderr' = Append(stderr, MarkedLine(exc))
  /\ exitStatus' = 1
  /\ pc' = "exited"
  /\ UNCHANGED <<argv, environ, configFile, target, ident, requests, response,
                 parsed, result, fs0, fs, stdout, exc, steps>>
  /\ UNCHANGED pureVars

\* main returns and the interpreter exits with status 0
Return ==
  /\ pc = "return"
  /\ exitStatus' = 0
  /\ pc' = "exited"
  /\ UNCHANGED <<argv, environ, configFile, target, ident, requests, response,
                 parsed, result, fs0, fs, stdout, stderr, exc, steps>>
  /\ UNCHANGED pureVars

Next ==
  \/ ParseArgs
  \/ LoadConfig
  \/ UseArgs
  \/ CheckApiKey
  \/ ValidatePersona
  \/ CallService
  \/ ParseResponse
  \/ SaveOutput
  \/ PrintResult
  \/ HandleException
  \/ Return

Spec == Init /\ [][Next]_vars

----------------------------------------------------------------------------
(* generate_referral_hash on its own: every name up to MaxNameLen *)

NameChars == {"A", "b", " ", "'"}

Names == UNION {[1..n -> NameChars] : n \in 0..MaxNameLen}

\* the variables of the run, at rest
Idle ==
  /\ pc = "idle"
  /\ argv = [name |-> None, persona |-> None, platform |-> None, bio |-> None,
             content |-> None, config |-> None, output |-> None, quiet |-> FALSE]
  /\ fs0 = EmptyFs
  /\ fs = EmptyFs
  /\ environ = NoEnviron
  /\ configFile = NoConfig
  /\ target = NoTarget
  /\ ident = NoIdent
  /\ requests = <<>>
  /\ response = NoResponse
  /\ parsed = NoParse
  /\ result = None
  /\ stdout = <<>>
  /\ stderr = <<>>
  /\ exc = NoExc
  /\ steps = <<>>
  /\ exitStatus = -1

InitHash ==
  /\ Idle
  /\ name \in Names
  /\ hash = None
  /\ reply = [pairs |-> <<>>, text |-> <<>>]
  /\ direct = NoParse
  /\ fenced = NoParse

\* referral_hash = generate_referral_hash(target_name), line 88
CallHash ==
  /\ hash.t = "none"
  /\ hash' = Some(generate_referral_hash(name))
  /\ UNCHANGED <<name, reply, direct, fenced>>
  /\ UNCHANGED runVars

NextHash == CallHash

SpecHash == InitHash /\ [][NextHash]_vars

----------------------------------------------------------------------------
(* The response interpreter on its own: every JSON object of up to         *)
(* MaxPairs members, as it stands and inside a fenced block                *)

ReplyKeys == {friendly, professional, brief}
ReplyValues == {<<"a">>, <<"a", " ", "b">>, <<"a", Backtick, Backtick, Backtick>>}

PairSeqs == UNION {[1..n -> ReplyKeys \X ReplyValues] : n \in 0..MaxPairs}

InitParse ==
  /\ Idle
  /\ name = <<>>
  /\ hash = None
  /\ reply \in {[pairs |-> p, text |-> ObjectText(p)] : p \in PairSeqs}
  /\ direct = NoParse
  /\ fenced = NoParse

\* lines 138-150 on the reply J
InterpretDirect ==
  /\ ~Interpreted(direct)
  /\ direct' = Interpret(reply.text)
  /\ UNCHANGED <<name, hash, reply, fenced>>
  /\ UNCHANGED runVars

\* lines 138-150 on the reply that wraps J in a fenced block
InterpretFenced ==
  /\ ~Interpreted(fenced)
  /\ fenced' = Interpret(Fence(reply.text))
  /\ UNCHANGED <<name, hash, reply, direct>>
  /\ UNCHANGED runVars

NextParse ==
  \/ InterpretDirect
  \/ InterpretFenced

SpecParse == InitParse /\ [][NextParse]_vars

----------------------------------------------------------------------------
(* Outcomes of a run *)

Exited == pc = "exited"

Last(s) == s[Len(s)]

\* the output file of the run was written
Saved == \E i \in 1..Len(steps) : steps[i] = "save"

\* the run did everything it was asked to
Succeeded == Exited /\ exc = NoExc /\ Saved /\ (argv.quiet \/ stdout # <<>>)

\* the error classes of the run
MissingCredential == exc = ValueError(CredentialMsg)
InvalidConfigPersona == exc = ValueError(PersonaMsg(target.persona_code.v))
InvalidArgPersona == exc = ArgumentError(ChoiceMsg)
MissingArguments == exc = ArgumentError(RequiredMsg)
TransportError == exc.type = "APIError"
FormatError == response.kind = "text" /\ Interpreted(parsed) /\ ~parsed.ok /\ exc = parsed.exc

\* a persona code outside PERSONAS was given, on the command line or in the config file
InvalidPersonaGiven ==
  \/ argv.persona # None /\ argv.persona.v \notin PERSONAS
  \/ /\ configFile.kind = "object"
     /\ configFile.obj.persona # None
     /\ configFile.obj.persona.v \notin PERSONAS

HasMarker(line) == line[1] = FailureMarker

----------------------------------------------------------------------------
(* C1: a persona code outside PERSONAS, whether from --persona or from the *)
(* config file, makes the run fail, and no request has been or is sent to  *)
(* the model service in that run.                                          *)
C1_InvalidPersonaNeverCalls ==
  InvalidPersonaGiven =>
    /\ requests = <<>>
    /\ response = NoResponse
    /\ pc \in {"parse_args", "dispatch", "check_key", "validate", "except", "exited"}
    /\ Exited => exitStatus \in {1, 2}

\* C1 witness: a config file's invalid code was rejected at line 85, nothing sent
C1_Witness ==
  /\ Exited
  /\ argv.persona = None
  /\ configFile.kind = "object"
  /\ configFile.obj.persona = Some(<<"x">>)
  /\ Truthy(environ)
  /\ exc = ValueError(PersonaMsg(<<"x">>))
  /\ requests = <<>>
  /\ exitStatus = 1

(* C2, as stated: the exit status is 0 when the run succeeds and 1 for     *)
(* every error outcome: missing credential, invalid persona code, network  *)
(* failure, unparsable response, missing required arguments.               *)
C2_EveryErrorExitsOne ==
  Exited =>
    /\ Succeeded => exitStatus = 0
    /\ ( MissingCredential \/ InvalidConfigPersona \/ InvalidArgPersona
         \/ TransportError \/ FormatError \/ MissingArguments ) => exitStatus = 1

(* C2, amended: the exit status is 0 when the run succeeds, 1 for a        *)
(* missing credential, an invalid persona code in the config file, a       *)
(* network failure and an unparsable response, and 2 for what argparse     *)
(* rejects: missing required arguments and an invalid --persona value.     *)
C2_ExitStatusByOutcome ==
  Exited =>
    /\ Succeeded => exitStatus = 0
    /\ ( MissingCredential \/ InvalidConfigPersona
         \/ TransportError \/ FormatError ) => exitStatus = 1
    /\ (MissingArguments \/ InvalidArgPersona) => exitStatus = 2
    /\ exitStatus = 0 => Succeeded

\* C2 witness: required arguments were missing and the run ended with status 2
C2_Witness ==
  /\ Exited
  /\ MissingArguments
  /\ argv.name = None
  /\ exitStatus = 2

C4_FencedParsesIdentically ==
  (Interpreted(direct) /\ Interpreted(fenced)) =>
    /\ direct.ok
    /\ direct.messages = ObjectValue(reply.pairs)
    /\ fenced.ok
    /\ fenced.messages = direct.messages

(* C5: whenever the reply parses neither directly nor after fenced-block   *)
(* extraction, the interpreter fails with a format error whose message     *)
(* contains the offending text, and no result record is returned.          *)
C5_ParseFailureNamesText ==
  (response.kind = "text" /\ Interpreted(parsed) /\ ~parsed.ok) =>
    /\ exc = parsed.exc
    /\ Contains(exc.msg, Strip(response.text))
    /\ result.t = "none"

(* C6: every output file the run writes is a JSON object with the keys     *)
(* target, persona, platform, referral_hash, url and messages, and         *)
(* messages is an object with the keys friendly, professional and brief.   *)
C6_OutputFileShape ==
  Saved =>
    \E f \in fs.files :
      /\ f.path = OutputFile(result, argv.output)
      /\ f.content.t = "obj"
      /\ DOMAIN f.content.v =
           {K_target, K_persona, K_platform, K_referral_hash, K_url, K_messages}
      /\ f.content.v[K_messages].t = "obj"
      /\ {friendly, professional, brief} \subseteq DOMAIN f.content.v[K_messages].v

(* C7: at most one request is sent in a run; if it fails, the run aborts:  *)
(* no second request, no parse of a reply, no output file.                 *)
C7_SingleRequestNoRetry ==
  /\ Len(requests) <= 1
  /\ response.kind = "error" =>
       /\ Len(requests) = 1
       /\ ~Interpreted(parsed)
       /\ result.t = "none"
       /\ fs = fs0
       /\ pc \in {"except", "exited"}
       /\ Exited => exitStatus = 1

\* C7 witness: the one request failed and the run ended, nothing parsed or written
C7_Witness ==
  /\ Exited
  /\ response.kind = "error"
  /\ Len(requests) = 1
  /\ TransportError
  /\ fs = fs0
  /\ exitStatus = 1

(* C8: for every non-empty name the referral hash has exactly 4            *)
(* characters: the first two characters of the normalized name, then two   *)
(* lowercase hexadecimal characters of the digest of the normalized name.  *)
C8_HashHasFourChars ==
  (hash.t = "str" /\ name # <<>>) =>
    /\ Len(hash.v) = 4
    /\ SubSeq(hash.v, 1, 2) = SubSeq(CleanName(name), 1, 2)
    /\ \A i \in 3..4 : \E d \in 1..16 : hash.v[i] = HexDigits[d]
    /\ SubSeq(hash.v, 3, 4) = Md5Hex2(CleanName(name))

(* C9, as stated: every configuration, transport and format error is       *)
(* printed to the error stream with the failure marker and ends the        *)
(* process with a non-zero status.                                         *)
C9_EveryErrorMarked ==
  ( Exited /\ ( MissingCredential \/ InvalidConfigPersona \/ InvalidArgPersona
                \/ MissingArguments \/ TransportError \/ FormatError ) ) =>
    /\ stderr # <<>>
    /\ HasMarker(Last(stderr))
    /\ exitStatus # 0

(* C9, amended: a missing credential, an invalid persona code in the       *)
(* config file, a transport error and a format error are printed to the    *)
(* error stream with the failure marker and end the process with status 1; *)
(* missing required arguments and an invalid --persona value are printed   *)
(* by argparse as a usage error, without the marker, and end it with       *)
(* status 2.  No error is retried or recovered from: once raised, the run  *)
(* only reports it and exits, and no second request is sent.               *)
C9_ErrorsReportedAndFatal ==
  /\ exc # NoExc => pc \in {"except", "exited"}
  /\ Len(requests) <= 1
  /\ Exited =>
       /\ ( MissingCredential \/ InvalidConfigPersona
            \/ TransportError \/ FormatError ) =>
            /\ stderr = <<MarkedLine(exc)>>
            /\ HasMarker(Last(stderr))
            /\ exitStatus = 1
       /\ (MissingArguments \/ InvalidArgPersona) =>
            /\ stderr = <<UsageLine(exc)>>
            /\ ~HasMarker(Last(stderr))
            /\ exitStatus = 2

\* C9 witness: an unparsable reply was reported with the marker, status 1
C9_Witness ==
  /\ Exited
  /\ FormatError
  /\ exc.type = "ValueError"
  /\ stderr = <<MarkedLine(exc)>>
  /\ exitStatus = 1

(* C10: the output file is written only after the credential check, the    *)
(* persona check, the request and the parse of the reply have succeeded,   *)
(* in that order; a run in which one of them fails never calls save_output *)
(* and leaves the file system as it was.                                   *)
C10_SaveOnlyAfterAllSteps ==
  /\ \E n \in 0..5 :
       steps = SubSeq(<<"credential", "persona", "request", "parse", "save">>, 1, n)
  /\ (Saved \/ fs # fs0 \/ pc = "save") =>
       /\ Truthy(environ)
       /\ target.persona_code.v \in PERSONAS
       /\ Len(requests) = 1
       /\ response.kind = "text"
       /\ parsed.ok
       /\ result.t = "obj"
  /\ (exc # NoExc /\ ~Saved) => fs = fs0

\* C10 witness: the reply did not parse; the file at the --output path is untouched
C10_Witness ==
  /\ Exited
  /\ FormatError
  /\ argv.output # None
  /\ \E f \in fs0.files : f.path = argv.output.v
  /\ fs = fs0
  /\ steps = <<"credential", "persona", "request">>

====
